---- MODULE Spec2Model ----
(***************************************************************************)
(* PoseDataJointVelocities (Gems/MotionMatching): the per-joint velocity   *)
(* pose data of a pose, its life cycle operations, its blend policy and    *)
(* the finite-difference velocity estimation over a motion instance.       *)
(*                                                                         *)
(* Numbers.  Floats are modelled on an integer grid: time in ticks (the    *)
(* sampling window of 0.05 s is TimeRange ticks), positions and velocities *)
(* in integer units.  Every clip below keeps joint positions on multiples  *)
(* of 6 units, so the divisions by frameDelta and by numSamples are exact  *)
(* and integer division coincides with the real quotient.  Lerp rounds its *)
(* product down to the grid, as float arithmetic rounds to its own.        *)
(* Joint indices are 0-based as in the source; element i of a TLA+         *)
(* sequence holds joint i-1.                                               *)
(***************************************************************************)
EXTENDS Integers, Sequences, FiniteSets, TLC

\* ------------------------------------------------------------------ bounds
MaxJoints == 2          \* actor instances have 1..MaxJoints joints
MaxOps == 2             \* operations called on the poses in one behaviour
Duration == 6           \* clip duration in ticks
WeightDen == 2          \* blend weights are 0/WeightDen .. WeightDen/WeightDen

\* ------------------------------------------------------- program constants
InvalidIndex == 255     \* stand-in for the all-ones size_t sentinel
NumSamples == 3         \* numSamples
TimeRange == 6          \* timeRange = 0.05 s, in ticks
HalfTimeRange == TimeRange \div 2
FrameDelta == TimeRange \div NumSamples

PoolSize == 4           \* pose buffers of the thread's pool
Buffers == 1..PoolSize
NullData == [null |-> TRUE]   \* GetPoseData of a pose without joint velocities
NoActor == [none |-> TRUE]
NoPose == <<>>
NoMotion == [clip |-> "none", currentTime |-> 0]

\* --------------------------------------------------------------- vectors
Zero == <<0, 0, 0>>
VAdd(a, b) == [i \in 1..3 |-> a[i] + b[i]]
VSub(a, b) == [i \in 1..3 |-> a[i] - b[i]]
VDiv(a, n) == [i \in 1..3 |-> a[i] \div n]
VScale(a, n) == [i \in 1..3 |-> a[i] * n]

\* AZ::Vector3::Lerp: this + (dest - this) * t, t = w / WeightDen.
Lerp(a, b, w) == [i \in 1..3 |-> a[i] + ((b[i] - a[i]) * w) \div WeightDen]

\* A transform is a position and an orientation; orientations are quarter
\* turns about the z axis, which keep vectors on the integer grid.
Rotate(v, r) ==
    CASE r % 4 = 0 -> v
      [] r % 4 = 1 -> <<-v[2], v[1], v[3]>>
      [] r % 4 = 2 -> <<-v[1], -v[2], v[3]>>
      [] OTHER     -> <<v[2], -v[1], v[3]>>

\* Transform::Inversed().TransformVector(v): the inverse orientation applied
\* to a direction, no translation.
InverseTransformVector(tm, v) == Rotate(v, 4 - (tm.rot % 4))

\* EMotionFX::CalculateLinearVelocity (Velocity.h).
CalculateLinearVelocity(prevPosition, currentPosition, timeDelta) ==
    IF timeDelta <= 0 THEN Zero ELSE VDiv(VSub(currentPosition, prevPosition), timeDelta)

\* What an uninitialised or out-of-range read can yield.
GarbageVecs == {Zero, <<12, -6, 6>>}
GarbageTransforms == {[pos |-> Zero, rot |-> 0], [pos |-> <<6, 6, 0>>, rot |-> 1]}

\* ----------------------------------------------------------------- clips
\* Motion::Update evaluates the clip at the motion instance's current time
\* into a pose.  Two clips: every joint moving at a constant velocity with
\* constant orientations; accelerating joints whose orientations turn with
\* time.
Clips == {"slide", "turn"}
ClipVelocity(j) == <<6 * (j + 1), -6, 0>>
ClipTransform(clip, t, j) ==
    CASE clip = "slide" -> [pos |-> VAdd(<<0, 6 * j, 0>>, VScale(ClipVelocity(j), t)),
                            rot |-> (j + 1) % 4]
      [] OTHER          -> [pos |-> <<6 * t * t, 6 * j * t, 0>>, rot |-> (t + j) % 4]
ClipPose(clip, t, numNodes) == [i \in 1..numNodes |-> ClipTransform(clip, t, i - 1)]

\* ------------------------------------------------------------------ state
VARIABLES
    feature,    \* the pose data: isUsed, velocities, angularVelocities, relativeToJointIndex
    linked,     \* the actor instance of the last LinkToActorInstance
    motion,     \* the motion instance handed to CalculateVelocity: clip, currentTime
    call,       \* the running CalculateVelocity call's locals, or idle
    poolFree,   \* the pose pool's free buffers
    others,     \* buffers held by a concurrent CalculateVelocity of another pose
    ops,        \* operations called so far
    last        \* the operation that produced this state

vars == <<feature, linked, motion, call, poolFree, others, ops, last>>

ActorInstances ==
    {[numNodes |-> n, motionExtractionNode |-> m] :
        n \in 1..MaxJoints, m \in (0..(MaxJoints - 1)) \cup {InvalidIndex}}
ValidActorInstances ==
    {a \in ActorInstances :
        a.motionExtractionNode = InvalidIndex \/ a.motionExtractionNode < a.numNodes}

MotionInstances == [clip : Clips, currentTime : 0..Duration]

\* The joint velocities of other poses, handed to CopyFrom and Blend as
\* const arguments: unused or used, of every length up to MaxJoints, their
\* reference joint one of their own joints.
DestVecs == {Zero, <<5, -8, 2>>}
AnyDestData ==
    {[isUsed |-> u,
      velocities |-> [i \in 1..n |-> VScale(a, i)],
      angularVelocities |-> [i \in 1..n |-> VScale(a, i - 2)],
      relativeToJointIndex |-> r] :
        u \in BOOLEAN, n \in 0..MaxJoints, a \in DestVecs, r \in 0..(MaxJoints - 1)}
DestData ==
    {d \in AnyDestData :
        d.relativeToJointIndex = 0 \/ d.relativeToJointIndex < Len(d.velocities)}
DestPoseData == {d \in DestData : d.relativeToJointIndex = 0} \cup {NullData}
DestKind(d) == IF d = NullData THEN "null" ELSE IF d.isUsed THEN "used" ELSE "unused"

Idle == [pc |-> "idle"]

\* ------------------------------------------------ the pose data, as values
\* The constructor: empty arrays, unused.
NewFeature ==
    [isUsed |-> FALSE, velocities |-> <<>>, angularVelocities |-> <<>>,
     relativeToJointIndex |-> 0]

ClearOnlyVelocities(f) == [f EXCEPT !.velocities = <<>>]
ClearData(f) == [f EXCEPT !.velocities = <<>>, !.angularVelocities = <<>>]

\* AZStd::vector::resize: the elements below the old size are kept, the new
\* ones are default-constructed AZ::Vector3 (not initialised): fill is what
\* the memory happens to hold.
ResizeDiscarding(seq, n, fill) == [i \in 1..n |-> fill]
Resize(seq, n, fill) == [i \in 1..n |-> IF i <= Len(seq) THEN seq[i] ELSE fill]

SetRelativeToJointIndex(f, relativeToJointIndex) ==
    [f EXCEPT !.relativeToJointIndex =
        IF relativeToJointIndex = InvalidIndex THEN 0 ELSE relativeToJointIndex]

LinkData(f, actorInstance, fill) ==
    SetRelativeToJointIndex(
        [f EXCEPT !.velocities = Resize(f.velocities, actorInstance.numNodes, fill),
                  !.angularVelocities =
                      Resize(f.angularVelocities, actorInstance.numNodes, fill)],
        actorInstance.motionExtractionNode)

ResetData(f) ==
    [f EXCEPT !.velocities = [i \in 1..Len(f.velocities) |-> Zero],
              !.angularVelocities = [i \in 1..Len(f.velocities) |-> Zero]]

CopyData(f, from) ==
    [isUsed |-> from.isUsed, velocities |-> from.velocities,
     angularVelocities |-> from.angularVelocities,
     relativeToJointIndex |-> from.relativeToJointIndex]

\* An element read; past the end of the array the read is out of range.
At(seq, i, garbage) == IF i <= Len(seq) THEN seq[i] ELSE garbage

\* Blend without the test of the destination's used flag.
BlendIgnoringDestUsed(f, dest, weight, garbage) ==
    IF dest # NullData
    THEN IF f.isUsed
         THEN [f EXCEPT
                 !.velocities = [i \in 1..Len(f.velocities) |->
                     Lerp(f.velocities[i], At(dest.velocities, i, garbage), weight)],
                 !.angularVelocities = [i \in 1..Len(f.velocities) |->
                     Lerp(At(f.angularVelocities, i, garbage),
                          At(dest.angularVelocities, i, garbage), weight)]]
         ELSE [f EXCEPT !.velocities = dest.velocities,
                        !.angularVelocities = dest.angularVelocities]
    ELSE f

\* Blend without the test of this pose data's used flag: it always interpolates.
BlendAlwaysLerp(f, dest, weight, garbage) ==
    IF dest # NullData /\ dest.isUsed
    THEN [f EXCEPT
            !.velocities = [i \in 1..Len(f.velocities) |->
                Lerp(f.velocities[i], At(dest.velocities, i, garbage), weight)],
            !.angularVelocities = [i \in 1..Len(f.velocities) |->
                Lerp(At(f.angularVelocities, i, garbage),
                     At(dest.angularVelocities, i, garbage), weight)]]
    ELSE f

\* Blend interpolating from the destination towards this pose data.
BlendSwapped(f, dest, weight, garbage) ==
    IF dest # NullData /\ dest.isUsed
    THEN IF f.isUsed
         THEN [f EXCEPT
                 !.velocities = [i \in 1..Len(f.velocities) |->
                     Lerp(At(dest.velocities, i, garbage), f.velocities[i], weight)],
                 !.angularVelocities = [i \in 1..Len(f.velocities) |->
                     Lerp(At(dest.angularVelocities, i, garbage),
                          At(f.angularVelocities, i, garbage), weight)]]
         ELSE [f EXCEPT !.velocities = dest.velocities,
                        !.angularVelocities = dest.angularVelocities]
    ELSE f

BlendData(f, dest, weight, garbage) ==
    IF dest # NullData /\ dest.isUsed
    THEN IF f.isUsed
         THEN [f EXCEPT
                 !.velocities = [i \in 1..Len(f.velocities) |->
                     Lerp(f.velocities[i], At(dest.velocities, i, garbage), weight)],
                 !.angularVelocities = [i \in 1..Len(f.velocities) |->
                     Lerp(At(f.angularVelocities, i, garbage),
                          At(dest.angularVelocities, i, garbage), weight)]]
         ELSE [f EXCEPT !.velocities = dest.velocities,
                        !.angularVelocities = dest.angularVelocities]
    ELSE f

\* ------------------------------------------------------------- operations
\* An operation may be called: the pose data is not inside CalculateVelocity
\* and the behaviour's operations are not used up.
Callable == call.pc = "idle" /\ ops < MaxOps

Done(op, arg, kind) ==
    /\ ops' = ops + 1
    /\ last' = [op |-> op, arg |-> arg, kind |-> kind]

\* The pose data as its pose's owner hands it over: constructed, and marked
\* used or not.
Init ==
    /\ feature \in {[NewFeature EXCEPT !.isUsed = u] : u \in BOOLEAN}
    /\ linked = NoActor
    /\ motion = NoMotion
    /\ call = Idle
    /\ poolFree = Buffers
    /\ others = {}
    /\ ops = 0
    /\ last = [op |-> "new", arg |-> 0, kind |-> ""]

Clear ==
    /\ Callable
    /\ feature' = ClearData(feature)
    /\ Done("Clear", 0, "")
    /\ UNCHANGED <<linked, motion, call, poolFree, others>>

LinkToActorInstance(actorInstance, fill) ==
    /\ Callable
    /\ feature' = LinkData(feature, actorInstance, fill)
    /\ linked' = actorInstance
    /\ Done("LinkToActorInstance", actorInstance.numNodes,
            IF Len(feature.velocities) = 0 THEN "fresh" ELSE "rebind")
    /\ UNCHANGED <<motion, call, poolFree, others>>

LinkToActor ==
    /\ Callable
    /\ feature' = ClearData(feature)
    /\ Done("LinkToActor", 0, "")
    /\ UNCHANGED <<linked, motion, call, poolFree, others>>

Reset ==
    /\ Callable
    /\ feature' = ResetData(feature)
    /\ Done("Reset", 0, "")
    /\ UNCHANGED <<linked, motion, call, poolFree, others>>

CopyFrom(from) ==
    /\ Callable
    /\ feature' = CopyData(feature, from)
    /\ Done("CopyFrom", Len(from.velocities), "")
    /\ UNCHANGED <<linked, motion, call, poolFree, others>>

\* The values the out-of-range reads of a Blend can yield: none is made
\* unless both are used and the destination's arrays are the shorter ones.
BlendReads(f, dest) ==
    IF dest # NullData /\ dest.isUsed /\ f.isUsed /\ Len(dest.velocities) < Len(f.velocities)
    THEN GarbageVecs ELSE {Zero}

Blend(destPoseData, weight, garbage) ==
    /\ Callable
    /\ feature' = BlendData(feature, destPoseData, weight, garbage)
    /\ Done("Blend", weight, DestKind(destPoseData))
    /\ UNCHANGED <<linked, motion, call, poolFree, others>>

\* PoseData::SetIsUsed: the owner of the pose marks the data used or unused.
SetIsUsed(isUsed) ==
    /\ Callable
    /\ feature.isUsed # isUsed
    /\ feature' = [feature EXCEPT !.isUsed = isUsed]
    /\ Done("SetIsUsed", 0, "")
    /\ UNCHANGED <<linked, motion, call, poolFree, others>>

\* ---------------------------------------------------- CalculateVelocity
\* AnimGraphPosePool::RequestPose hands out a free buffer, FreePose takes
\* it back.
RequestPose(free) == CHOOSE b \in free : \A c \in free : b <= c
FreePose(free, pose) == free \cup {pose.buf}

\* Lines 204-205.
FreeScratchLeaky(free, prevPose, currentPose) == FreePose(free, prevPose)
FreeScratch(free, prevPose, currentPose) == FreePose(FreePose(free, prevPose), currentPose)

Clamp(x, lo, hi) == IF x < lo THEN lo ELSE IF x > hi THEN hi ELSE x

\* Lines 160, 169-170.
SampleTime(originalTime, sampleIndex) ==
    Clamp((originalTime - HalfTimeRange) + sampleIndex * FrameDelta, 0, Duration)

\* Pose::GetWorldSpaceTransform: past the pose's transforms the read is out
\* of range.
GetWorldSpaceTransform(pose, jointIndex, garbage) ==
    IF jointIndex < Len(pose) THEN pose[jointIndex + 1] ELSE garbage

\* Lines 143-165: the locals, the two scratch poses, the arrays zeroed.
CalcBegin(motionInstance, relativeToJointIndex) ==
    /\ Callable
    /\ linked # NoActor
    /\ Cardinality(poolFree) >= 2
    /\ motion' = motionInstance
    /\ LET prevBuf == RequestPose(poolFree)
           currentBuf == RequestPose(poolFree \ {prevBuf})
       IN /\ call' = [pc |-> "sampling",
                      numJoints |-> Len(feature.velocities),
                      relativeToJointIndex |-> relativeToJointIndex,
                      originalTime |-> motionInstance.currentTime,
                      sampleIndex |-> 0,
                      prevPose |-> [buf |-> prevBuf, tm |-> NoPose],
                      currentPose |-> [buf |-> currentBuf, tm |-> NoPose]]
          /\ poolFree' = poolFree \ {prevBuf, currentBuf}
    /\ feature' = ResetData(SetRelativeToJointIndex(feature, relativeToJointIndex))
    /\ Done("CalculateVelocity", relativeToJointIndex, motionInstance.clip)
    /\ UNCHANGED <<linked, others>>

\* Lines 183-190: one pair of samples added to every joint's velocity.
Accumulate(velocities, numJoints, prevTm, currentTm, inverseJointWorldTransform, garbage) ==
    [i \in 1..numJoints |->
        VAdd(velocities[i],
             InverseTransformVector(inverseJointWorldTransform,
                 CalculateLinearVelocity(
                     GetWorldSpaceTransform(prevTm, i - 1, garbage).pos,
                     GetWorldSpaceTransform(currentTm, i - 1, garbage).pos,
                     FrameDelta)))]

\* The values the out-of-range reads of an iteration can yield: none is made
\* while the joints read are joints of the sampled pose.
SampleReads ==
    IF call.pc = "sampling" /\ call.sampleIndex > 0
       /\ (call.relativeToJointIndex >= linked.numNodes \/ call.numJoints > linked.numNodes)
    THEN GarbageTransforms ELSE {[pos |-> Zero, rot |-> 0]}

\* Lines 167-193: one iteration of the sampling loop.
CalcSample(garbage) ==
    /\ call.pc = "sampling"
    /\ call.sampleIndex < NumSamples + 1
    /\ LET sampleTime == SampleTime(call.originalTime, call.sampleIndex)
           sampled == ClipPose(motion.clip, sampleTime, linked.numNodes)
       IN /\ motion' = [motion EXCEPT !.currentTime = sampleTime]
          /\ IF call.sampleIndex = 0
             THEN /\ call' = [call EXCEPT !.prevPose.tm = sampled, !.sampleIndex = 1]
                  /\ UNCHANGED feature
             ELSE /\ feature' = [feature EXCEPT !.velocities =
                        Accumulate(@, call.numJoints, call.prevPose.tm, sampled,
                            GetWorldSpaceTransform(sampled, call.relativeToJointIndex, garbage),
                            garbage)]
                  /\ call' = [call EXCEPT !.currentPose.tm = sampled,
                                          !.prevPose.tm = sampled,
                                          !.sampleIndex = call.sampleIndex + 1]
    /\ UNCHANGED <<linked, poolFree, others, ops, last>>

\* Lines 195-200: the sums become averages.
AverageData(f, numJoints) ==
    [f EXCEPT !.velocities = [i \in 1..numJoints |-> VDiv(f.velocities[i], NumSamples)],
              !.angularVelocities =
                  [i \in 1..numJoints |-> VDiv(f.angularVelocities[i], NumSamples)]]

\* Line 202.
RestoredTimeNone(originalTime, currentTime) == currentTime
RestoredTime(originalTime, currentTime) == originalTime

\* Lines 195-205: the averages, the time set back, the scratch poses freed.
CalcEnd ==
    /\ call.pc = "sampling"
    /\ call.sampleIndex = NumSamples + 1
    /\ feature' = AverageData(feature, call.numJoints)
    /\ motion' = [motion EXCEPT
           !.currentTime = RestoredTime(call.originalTime, motion.currentTime)]
    /\ poolFree' = FreeScratch(poolFree, call.prevPose, call.currentPose)
    /\ call' = Idle
    /\ last' = [last EXCEPT !.op = "CalculateVelocityDone"]
    /\ UNCHANGED <<linked, others, ops>>

\* A CalculateVelocity call of another pose's data that shares the pool:
\* its two RequestPose calls (lines 153-154) and its two FreePose calls
\* (lines 204-205).  Its velocities belong to the other pose.
OtherCalcBegin ==
    /\ others = {}
    /\ Cardinality(poolFree) >= 2
    /\ LET prevBuf == RequestPose(poolFree)
           currentBuf == RequestPose(poolFree \ {prevBuf})
       IN /\ others' = {prevBuf, currentBuf}
          /\ poolFree' = poolFree \ {prevBuf, currentBuf}
    /\ UNCHANGED <<feature, linked, motion, call, ops, last>>

OtherCalcEnd ==
    /\ others # {}
    /\ poolFree' = poolFree \cup others
    /\ others' = {}
    /\ UNCHANGED <<feature, linked, motion, call, ops, last>>

Next ==
    \/ Clear
    \/ \E a \in ValidActorInstances, fill \in GarbageVecs : LinkToActorInstance(a, fill)
    \/ LinkToActor
    \/ Reset
    \/ \E from \in DestData : CopyFrom(from)
    \/ \E d \in DestPoseData, weight \in 0..WeightDen :
           \E garbage \in BlendReads(feature, d) : Blend(d, weight, garbage)
    \/ \E isUsed \in BOOLEAN : SetIsUsed(isUsed)
    \/ \E m \in MotionInstances, r \in (0..MaxJoints) \cup {InvalidIndex} : CalcBegin(m, r)
    \/ \E garbage \in SampleReads : CalcSample(garbage)
    \/ CalcEnd

Spec == Init /\ [][Next]_vars

\* The calls that use the pose pool, interleaved with those of another pose.
NextPool ==
    \/ \E a \in ValidActorInstances, fill \in GarbageVecs : LinkToActorInstance(a, fill)
    \/ \E m \in MotionInstances, r \in (0..MaxJoints) \cup {InvalidIndex} : CalcBegin(m, r)
    \/ \E garbage \in SampleReads : CalcSample(garbage)
    \/ CalcEnd
    \/ OtherCalcBegin
    \/ OtherCalcEnd

SpecPool == Init /\ [][NextPool]_vars

\* ================================================================ claims
Weights == 0..WeightDen
StepOp(op) == ops' = ops + 1 /\ last'.op = op
DestIsUsed(d) == d # NullData /\ d.isUsed

\* The step is Blend(d, w, g); what the step recorded of its arguments is
\* compared first.
BlendStep(d, w, g) == last'.arg = w /\ last'.kind = DestKind(d) /\ Blend(d, w, g)

\* C1. Blend no-op: when the destination pose has no joint velocity pose
\* data, or has one that is unused, Blend leaves isUsed, velocities,
\* angularVelocities and relativeToJointIndex as they were, whatever the weight.
BlendNoOp ==
    [][StepOp("Blend") =>
        \A d \in DestPoseData, w \in Weights : \A g \in BlendReads(feature, d) :
            (BlendStep(d, w, g) /\ ~DestIsUsed(d)) => feature' = feature]_vars

BlendNoOpWitness ==
    /\ last.op = "Blend" /\ last.kind = "unused" /\ last.arg = WeightDen
    /\ Len(feature.velocities) > 0

\* C2. Blend replace: when this pose data is unused and the destination's is
\* used, Blend makes both arrays equal to the destination's, element for
\* element, and every weight gives that same result.
BlendReplace ==
    [][StepOp("Blend") =>
        \A d \in DestPoseData, w \in Weights : \A g \in BlendReads(feature, d) :
            (BlendStep(d, w, g) /\ ~feature.isUsed /\ DestIsUsed(d)) =>
                /\ feature'.velocities = d.velocities
                /\ feature'.angularVelocities = d.angularVelocities
                /\ \A w2 \in Weights : BlendData(feature, d, w2, g) = feature']_vars

BlendReplaceWitness ==
    /\ last.op = "Blend" /\ last.kind = "used" /\ last.arg = 1
    /\ ~feature.isUsed
    /\ Len(feature.velocities) > 0

\* The component r is lerp(a, b, w / WeightDen) rounded down to the grid:
\* a at weight 0, b at weight 1, a + w * (b - a) / WeightDen in between.
IsLerp(a, b, w, r) ==
    /\ w = 0 => r = a
    /\ w = WeightDen => r = b
    /\ WeightDen * r <= WeightDen * a + w * (b - a)
    /\ WeightDen * r > WeightDen * a + w * (b - a) - WeightDen

\* C3. Blend interpolation: when both are used and their arrays have the
\* same length, every component of every joint of both arrays becomes
\* lerp(self before, destination, weight); weight 0 keeps this pose data's
\* values and weight 1 takes the destination's.
BlendInterpolation ==
    [][StepOp("Blend") =>
        \A d \in DestPoseData, w \in Weights : \A g \in BlendReads(feature, d) :
            (/\ BlendStep(d, w, g) /\ feature.isUsed /\ DestIsUsed(d)
             /\ Len(d.velocities) = Len(feature.velocities)) =>
                /\ Len(feature'.velocities) = Len(feature.velocities)
                /\ Len(feature'.angularVelocities) = Len(feature.velocities)
                /\ \A i \in 1..Len(feature.velocities), k \in 1..3 :
                    /\ IsLerp(feature.velocities[i][k], d.velocities[i][k], w,
                              feature'.velocities[i][k])
                    /\ IsLerp(feature.angularVelocities[i][k], d.angularVelocities[i][k], w,
                              feature'.angularVelocities[i][k])]_vars

BlendInterpolationWitness ==
    /\ last.op = "Blend" /\ last.kind = "used" /\ last.arg = 1
    /\ feature.isUsed
    /\ Len(feature.velocities) > 0
    /\ \E i \in 1..Len(feature.velocities) : feature.velocities[i] \notin GarbageVecs \cup DestVecs

\* C4, as claimed. Length invariant: once bound, both arrays have the joint
\* count of the actor instance last bound, whatever operations follow.
LengthIsJointCount ==
    linked # NoActor =>
        /\ Len(feature.velocities) = linked.numNodes
        /\ Len(feature.angularVelocities) = linked.numNodes

\* C4, amended. The two arrays always have the same length;
\* LinkToActorInstance makes it the actor instance's joint count; Reset,
\* SetIsUsed, CalculateVelocity and a Blend that does not replace keep it;
\* Clear and LinkToActor make it 0; CopyFrom and a replacing Blend make it
\* the source's length.
LengthFollowsOperations ==
    [][/\ Len(feature'.velocities) = Len(feature'.angularVelocities)
       /\ StepOp("LinkToActorInstance") => Len(feature'.velocities) = linked'.numNodes
       /\ (StepOp("Clear") \/ StepOp("LinkToActor")) => Len(feature'.velocities) = 0
       /\ StepOp("CopyFrom") => Len(feature'.velocities) = last'.arg
       /\ (StepOp("Reset") \/ StepOp("SetIsUsed") \/ StepOp("CalculateVelocity")
              \/ ops' = ops) =>
            Len(feature'.velocities) = Len(feature.velocities)
       /\ StepOp("Blend") =>
            \A d \in DestPoseData, w \in Weights : \A g \in BlendReads(feature, d) :
                BlendStep(d, w, g) =>
                    Len(feature'.velocities) =
                        IF DestIsUsed(d) /\ ~feature.isUsed
                        THEN Len(d.velocities) ELSE Len(feature.velocities)]_vars

LengthAfterClearWitness ==
    /\ last.op = "Clear"
    /\ linked # NoActor
    /\ Len(feature.velocities) = 0 /\ Len(feature.angularVelocities) = 0

\* C5. Reference joint validity: on a pose data bound to an actor instance
\* of J joints (its arrays of length J), the stored relativeToJointIndex is
\* below J, whatever relativeToJointIndex CalculateVelocity was given.
ReferenceJointValid ==
    (linked # NoActor /\ Len(feature.velocities) = linked.numNodes) =>
        feature.relativeToJointIndex < Len(feature.velocities)

\* C6. Time restoration: the motion instance's current time when
\* CalculateVelocity returns is the time it had when the call began, while
\* the iterations in between set it to the sample times.
TimeRestored ==
    [][/\ (call.pc = "idle" /\ call'.pc = "sampling") =>
            call'.originalTime = motion'.currentTime
       /\ (call.pc = "sampling" /\ call'.pc = "sampling") =>
            call'.originalTime = call.originalTime
       /\ (call.pc = "sampling" /\ call'.pc = "idle") =>
            motion'.currentTime = call.originalTime]_vars

TimeRestoredWitness ==
    /\ last.op = "CalculateVelocityDone"
    /\ motion.currentTime = 1
    /\ SampleTime(motion.currentTime, NumSamples) # motion.currentTime
    /\ SampleTime(motion.currentTime, 0) = SampleTime(motion.currentTime, 1)

\* C7, as claimed. Re-bind equals fresh creation: LinkToActorInstance gives
\* the arrays and the reference joint that binding a newly constructed pose
\* data to the same actor instance gives.
RebindEqualsFresh ==
    [][StepOp("LinkToActorInstance") =>
        \A a \in ValidActorInstances, fill \in GarbageVecs :
            (last'.arg = a.numNodes /\ LinkToActorInstance(a, fill)) =>
                LET fresh == LinkData(NewFeature, a, fill)
                IN /\ feature'.velocities = fresh.velocities
                   /\ feature'.angularVelocities = fresh.angularVelocities
                   /\ feature'.relativeToJointIndex = fresh.relativeToJointIndex]_vars

\* C7, amended. LinkToActorInstance gives the lengths and the reference
\* joint of a fresh binding; the elements below the old and the new length
\* keep the values they had, only the added ones are new.
RebindKeepsPrefix ==
    [][StepOp("LinkToActorInstance") =>
        \A a \in ValidActorInstances, fill \in GarbageVecs :
            (last'.arg = a.numNodes /\ LinkToActorInstance(a, fill)) =>
                LET fresh == LinkData(NewFeature, a, fill)
                IN /\ Len(feature'.velocities) = Len(fresh.velocities)
                   /\ Len(feature'.angularVelocities) = Len(fresh.angularVelocities)
                   /\ feature'.relativeToJointIndex = fresh.relativeToJointIndex
                   /\ \A i \in 1..a.numNodes :
                        /\ feature'.velocities[i] =
                             IF i <= Len(feature.velocities)
                             THEN feature.velocities[i] ELSE fresh.velocities[i]
                        /\ feature'.angularVelocities[i] =
                             IF i <= Len(feature.angularVelocities)
                             THEN feature.angularVelocities[i]
                             ELSE fresh.angularVelocities[i]]_vars

RebindWitness ==
    /\ last.op = "LinkToActorInstance" /\ last.kind = "rebind"
    /\ \E i \in 1..Len(feature.velocities) : feature.velocities[i] \notin GarbageVecs

\* The window [t - W/2, t + W/2] lies inside the clip.
WindowInside(t) == t - HalfTimeRange >= 0 /\ t + HalfTimeRange <= Duration

\* C8. Constant-velocity estimate: on the clip whose joints move at constant
\* velocities with constant orientations, with the window inside the clip,
\* CalculateVelocity stores for every joint its velocity expressed in the
\* frame of the stored reference joint.
ConstantVelocityEstimate ==
    (/\ last.op = "CalculateVelocityDone" /\ last.kind = "slide"
     /\ WindowInside(motion.currentTime)
     /\ Len(feature.velocities) <= linked.numNodes
     /\ feature.relativeToJointIndex < linked.numNodes) =>
        \A i \in 1..Len(feature.velocities) :
            feature.velocities[i] =
                InverseTransformVector(
                    ClipTransform("slide", motion.currentTime, feature.relativeToJointIndex),
                    ClipVelocity(i - 1))

\* The same estimate for the calls given a joint of the pose.
ConstantVelocityEstimateInRange ==
    (/\ last.op = "CalculateVelocityDone" /\ last.kind = "slide"
     /\ WindowInside(motion.currentTime)
     /\ Len(feature.velocities) <= linked.numNodes
     /\ last.arg < linked.numNodes) =>
        \A i \in 1..Len(feature.velocities) :
            feature.velocities[i] =
                InverseTransformVector(
                    ClipTransform("slide", motion.currentTime, feature.relativeToJointIndex),
                    ClipVelocity(i - 1))

\* C9. Scratch-buffer balance: a running call holds two distinct buffers of
\* the pool from before its first sample, no buffer is held twice or free
\* while held, and when no call runs every buffer is back in the pool.
ScratchBalanced ==
    /\ poolFree \cap others = {}
    /\ call.pc = "idle" => poolFree \cup others = Buffers
    /\ call.pc = "sampling" =>
        /\ call.prevPose.buf # call.currentPose.buf
        /\ {call.prevPose.buf, call.currentPose.buf} \cap (poolFree \cup others) = {}
        /\ poolFree \cup others \cup {call.prevPose.buf, call.currentPose.buf} = Buffers
    /\ (call.pc = "idle" /\ others = {}) => poolFree = Buffers

ScratchBalancedWitness ==
    /\ last.op = "CalculateVelocityDone"
    /\ others # {}
    /\ poolFree \cup others = Buffers

\* C10. Reference frame used equals reference joint stored: the joint whose
\* world transform the sampling loop inverts is the stored
\* relativeToJointIndex.
ReferenceFrameIsStoredJoint ==
    (call.pc = "sampling" /\ call.sampleIndex >= 2) =>
        call.relativeToJointIndex = feature.relativeToJointIndex

====
